---- MODULE Spec2Model ----
(***************************************************************************)
(* A model of the openGemini Python client: the line-protocol encoder of   *)
(* point.py (Point, the escaping tables, the timestamp normalizer) and the *)
(* request builder of client.py (OpenGeminiClient).                        *)
(*                                                                         *)
(* Text is a sequence of one-character strings, so that escaping, joining  *)
(* and ordering are computed character by character as the code does.      *)
(***************************************************************************)
EXTENDS Integers, Sequences, FiniteSets, TLC

\* ------------------------------------------------------------------ bounds

\* Integer field values range over -MaxInt..MaxInt.
MaxInt == 1
\* The finite float field value of the model is MaxTenths/10 (15: 1.5).
MaxTenths == 15

\* ------------------------------------------------------------- text helpers

RECURSIVE Concat(_)
\* "".join(parts) for a sequence of texts.
Concat(parts) ==
    IF parts = <<>> THEN <<>> ELSE Head(parts) \o Concat(Tail(parts))

\* The characters the model's texts are built from.
Chars == {"a", "b", "m", "x", ",", " ", "=", "\n", "\t", "\r", "\"", "\\"}

\* The code point of a character (Python compares str by code point).
Ord(c) ==
    CASE c = "\t" -> 9
      [] c = "\n" -> 10
      [] c = "\r" -> 13
      [] c = " " -> 32
      [] c = "\"" -> 34
      [] c = "," -> 44
      [] c = "1" -> 49
      [] c = "=" -> 61
      [] c = "\\" -> 92
      [] c = "a" -> 97
      [] c = "b" -> 98
      [] c = "i" -> 105
      [] c = "m" -> 109
      [] c = "x" -> 120

RECURSIVE StrLess(_, _)
\* s < t for two Python strings: lexicographic by code point.
StrLess(s, t) ==
    IF t = <<>> THEN FALSE
    ELSE IF s = <<>> THEN TRUE
    ELSE IF Head(s) # Head(t) THEN Ord(Head(s)) < Ord(Head(t))
    ELSE StrLess(Tail(s), Tail(t))

\* str.maketrans tables: each maps one character to its replacement text.
escape_measurement ==
    [c \in Chars |->
        CASE c = "," -> <<"\\", ",">>
          [] c = " " -> <<"\\", " ">>
          [] c = "\n" -> <<"\\", "n">>
          [] c = "\t" -> <<"\\", "t">>
          [] c = "\r" -> <<"\\", "r">>
          [] OTHER -> <<c>>]

escape_field_value ==
    [c \in Chars |->
        CASE c = "\"" -> <<"\\", "\"">>
          [] c = "\\" -> <<"\\", "\\">>
          [] OTHER -> <<c>>]

escape_name ==
    [c \in Chars |->
        CASE c = "," -> <<"\\", ",">>
          [] c = " " -> <<"\\", " ">>
          [] c = "=" -> <<"\\", "=">>
          [] c = "\n" -> <<"\\", "n">>
          [] c = "\t" -> <<"\\", "t">>
          [] c = "\r" -> <<"\\", "r">>
          [] OTHER -> <<c>>]

\* s.translate(table)
Translate(s, table) == Concat([i \in 1..Len(s) |-> table[s[i]]])

Digit(d) == <<"0", "1", "2", "3", "4", "5", "6", "7", "8", "9">>[d + 1]

RECURSIVE NatToStr(_)
NatToStr(n) ==
    IF n < 10 THEN <<Digit(n)>> ELSE NatToStr(n \div 10) \o <<Digit(n % 10)>>

\* str(n) for an int.
IntToStr(n) == IF n < 0 THEN <<"-">> \o NatToStr(0 - n) ELSE NatToStr(n)


\* ------------------------------------------------------------ Python values

None == [t |-> "NoneType"]
PyStr(s) == [t |-> "str", s |-> s]
PyBool(b) == [t |-> "bool", b |-> b]
PyInt(n) == [t |-> "int", n |-> n]
\* A float: kind is "finite", "inf" or "nan"; a finite one is tenths/10.
PyFloat(kind, tenths) == [t |-> "float", kind |-> kind, tenths |-> tenths]
PyList(items) == [t |-> "list", items |-> items]
PyDict(items) == [t |-> "dict", items |-> items]
\* A datetime, held as its offset from the epoch; tzinfo tells an aware one.
Datetime(days, seconds, microseconds, tzinfo) ==
    [t |-> "datetime", days |-> days, seconds |-> seconds,
     microseconds |-> microseconds, tzinfo |-> tzinfo]

\* isinstance(value, cls): bool is a subclass of int.
isinstance(value, cls) ==
    \/ value.t = cls
    \/ value.t = "bool" /\ cls = "int"

\* str(value) for a bool, a finite float and an int.
str(value) ==
    CASE value.t = "bool" ->
            IF value.b THEN <<"T", "r", "u", "e">> ELSE <<"F", "a", "l", "s", "e">>
      [] value.t = "float" ->
            IntToStr(value.tenths \div 10) \o <<".">> \o <<Digit(value.tenths % 10)>>
      [] value.t = "int" -> IntToStr(value.n)

\* s.lower(), on the letters str(bool) produces.
lower(s) ==
    [i \in 1..Len(s) |->
        CASE s[i] = "T" -> "t" [] s[i] = "F" -> "f" [] OTHER -> s[i]]

\* math.isfinite(value) for a float.
isfinite(value) == value.kind = "finite"

\* A dict keeps its keys in the order of their first insertion: a sequence of
\* items [k, v] with distinct keys.
DictHas(d, k) == \E i \in 1..Len(d) : d[i].k = k

\* d[k] = v
DictSet(d, k, v) ==
    IF DictHas(d, k)
    THEN [i \in 1..Len(d) |-> IF d[i].k = k THEN [k |-> k, v |-> v] ELSE d[i]]
    ELSE Append(d, [k |-> k, v |-> v])

RECURSIVE DictSetAll(_, _, _)
\* for k, v in zip(keys, values): d[k] = v
DictSetAll(d, keys, values) ==
    IF keys = <<>> \/ values = <<>> THEN d
    ELSE DictSetAll(DictSet(d, Head(keys).s, Head(values)), Tail(keys), Tail(values))

RECURSIVE InsertSorted(_, _)
InsertSorted(item, items) ==
    IF items = <<>> THEN <<item>>
    ELSE IF StrLess(item.k, Head(items).k) THEN <<item>> \o items
    ELSE <<Head(items)>> \o InsertSorted(item, Tail(items))

RECURSIVE sorted(_)
\* sorted(d.items()): ascending by key (the keys of a dict are distinct, so the
\* values are never compared).
sorted(items) ==
    IF items = <<>> THEN <<>> ELSE InsertSorted(Head(items), sorted(Tail(items)))

\* ---------------------------------------------------------------- point.py

\* The arguments the model's callers pass: measurements, <<key, value>> pairs
\* for tag and field and lists of them, and <<time, write_precision>> pairs.
Measurements == {<<"m">>, <<"m", " ", "=">>}
TagArgs ==
    {<<<<"a", " ">>, PyStr(<<"x", "=">>)>>, <<<<"a", " ">>, PyStr(<<>>)>>,
     <<<<"a", "\"">>, PyStr(<<"x", "=">>)>>, <<<<"a", "\"">>, None>>,
     <<<<>>, PyStr(<<"x", "=">>)>>}
TagListArgs ==
    {<<>>, << <<<<"a", "\"">>, None>> >>,
     << <<<<"a", "\"">>, PyStr(<<"x", "=">>)>>, <<<<"a", " ">>, PyStr(<<"x", "=">>)>> >>}
FieldArgs ==
    {<<<<"b">>, v>> :
        v \in {PyStr(<<"x", "\"", "\\">>), PyBool(TRUE), PyFloat("finite", MaxTenths),
               PyFloat("inf", 0), PyInt(MaxInt), None}}
    \cup {<<<<"a", "=">>, v>> : v \in {PyInt(-MaxInt), PyBool(FALSE)}}
FieldListArgs ==
    {<<>>, << <<<<"b">>, None>> >>,
     << <<<<"b">>, PyInt(MaxInt)>>, <<<<"a", "=">>, PyInt(-MaxInt)>> >>}
TimeArgs ==
    {<<None, "ns">>, <<PyInt(MaxInt), "ms">>, <<PyFloat("finite", MaxTenths), "ns">>,
     <<PyStr(<<"1970-01-01T00:00:01.000005Z">>), "ns">>}

VARIABLES
    _measurement,       \* Point._measurement
    _tags,              \* Point._tags
    _fields,            \* Point._fields
    _time,              \* Point._time
    _write_precision,   \* Point._write_precision
    ret,                \* what the last call returned or raised
    last_null,          \* history: the key the latest tag or field call passed None for
    field_order         \* history: the field keys in the order of their first insertion

pvars == <<_measurement, _tags, _fields, _time, _write_precision>>
pstate == <<pvars, ret, last_null, field_order>>

VARIABLES
    _username,          \* OpenGeminiClient._username
    _password,          \* OpenGeminiClient._password
    _database,          \* OpenGeminiClient._database
    _gzip,              \* OpenGeminiClient._gzip
    _session,           \* OpenGeminiClient._session, or Missing
    session_arg,        \* history: the session argument of __init__
    _headers,           \* OpenGeminiClient._headers
    _write_headers,     \* OpenGeminiClient._write_headers
    caller_params,      \* a mapping the caller owns and passes as query's params
    built_params,       \* history: caller_params as the caller built it
    call,               \* the caller's latest step: its name and arguments
    sent,               \* the HTTP requests the latest call made
    received,           \* the responses the latest call got
    cret                \* what the latest client call returned or raised

cvars == <<_username, _password, _database, _gzip, _session, _headers, _write_headers>>
cstate == <<cvars, session_arg, caller_params, built_params, call, sent, received, cret>>
vars == <<pstate, cstate>>

\* What a call returns: the Point itself, a text, or an exception.
Self == [kind |-> "point", id |-> "self"]
Text(s) == [kind |-> "text", text |-> s]
Raise(exc) == [kind |-> "raise", exc |-> exc]
\* The latest tag or field call passed None for no key.
NoKey == [op |-> "none"]

RECURSIVE FirstInserted(_, _)
\* field_order after the keys are stored one after the other.
FirstInserted(order, keys) ==
    IF keys = <<>> THEN order
    ELSE FirstInserted(
            IF \E i \in 1..Len(order) : order[i] = Head(keys).s THEN order
            ELSE Append(order, Head(keys).s),
            Tail(keys))

RECURSIVE NullKey(_, _, _)
\* last_null after a call of op (tag or field) that raised nothing.
NullKey(op, keys, values) ==
    IF keys = <<>> \/ values = <<>> THEN NoKey
    ELSE LET later == NullKey(op, Tail(keys), Tail(values))
         IN  IF later # NoKey THEN later
             ELSE IF Head(values) = None THEN [op |-> op, key |-> Head(keys).s]
             ELSE NoKey

\* Point.__init__
InitPoint ==
    /\ _measurement \in Measurements
    /\ _tags = <<>>
    /\ _fields = <<>>
    /\ _time = None
    /\ _write_precision = "ns"
    /\ ret = Self
    /\ last_null = NoKey
    /\ field_order = <<>>

\* Point.time
time(t, write_precision) ==
    /\ _write_precision' = write_precision
    /\ _time' = t
    /\ ret' = Self
    /\ UNCHANGED <<_measurement, _tags, _fields, last_null, field_order, cstate>>

\* Point.tag with a key and a value that are each a str, a list or another value.
tag(key, value) ==
    LET scalar == isinstance(key, "str") /\ isinstance(value, "str")
        lists == isinstance(key, "list") /\ isinstance(value, "list")
        d1 == IF scalar THEN DictSet(_tags, key.s, value) ELSE _tags
    IN  IF lists /\ Len(key.items) # Len(value.items)
        THEN /\ ret' = Raise("AssertionError")
             /\ _tags' = d1
             /\ UNCHANGED <<_measurement, _fields, _time, _write_precision,
                            last_null, field_order, cstate>>
        ELSE /\ _tags' = IF lists THEN DictSetAll(d1, key.items, value.items) ELSE d1
             /\ ret' = Self
             /\ last_null' = IF lists THEN NullKey("tag", key.items, value.items)
                             ELSE NullKey("tag", <<key>>, <<value>>)
             /\ UNCHANGED <<_measurement, _fields, _time, _write_precision,
                            field_order, cstate>>

\* Point.field
field(key, value) ==
    LET scalar == /\ isinstance(key, "str")
                  /\ \E c \in {"str", "float", "bool", "int"} : isinstance(value, c)
        lists == isinstance(key, "list") /\ isinstance(value, "list")
        d1 == IF scalar THEN DictSet(_fields, key.s, value) ELSE _fields
    IN  IF lists /\ Len(key.items) # Len(value.items)
        THEN /\ ret' = Raise("AssertionError")
             /\ _fields' = d1
             /\ UNCHANGED <<_measurement, _tags, _time, _write_precision,
                            last_null, field_order, cstate>>
        ELSE /\ _fields' = IF lists THEN DictSetAll(d1, key.items, value.items) ELSE d1
             /\ ret' = Self
             /\ last_null' = IF lists THEN NullKey("field", key.items, value.items)
                             ELSE NullKey("field", <<key>>, <<value>>)
             /\ field_order' = IF lists THEN FirstInserted(field_order, key.items)
                               ELSE IF scalar THEN FirstInserted(field_order, <<key>>)
                               ELSE field_order
             /\ UNCHANGED <<_measurement, _tags, _time, _write_precision, cstate>>

\* _to_nanos(timestamp), on the timestamp's offset from EPOCH.
_to_nanos(delta) ==
    LET nanos_in_days == delta.days * 86400 * 10^9
        nanos_in_seconds == delta.seconds * 10^9
        nanos_in_micros == delta.microseconds * 10^3
    IN  nanos_in_days + nanos_in_seconds + nanos_in_micros

\* dateutil.parser.parse, on the strings of Times: a datetime, or a failure.
parse(s) ==
    IF s = <<"1970-01-01T00:00:01.000005Z">>
    THEN Datetime(0, 1, 5, TRUE)
    ELSE Raise("ValueError")

\* _convert_timestamp: "" (here <<>>), an int, or ValueError.
_convert_timestamp(timestamp) ==
    IF timestamp = None THEN Text(<<>>)
    ELSE IF isinstance(timestamp, "int") THEN timestamp
    ELSE LET parsed == IF isinstance(timestamp, "str") THEN parse(timestamp.s)
                       ELSE timestamp
         IN  IF parsed = Raise("ValueError") THEN parsed
             ELSE IF isinstance(parsed, "datetime")
             THEN \* a naive datetime is localized to UTC: the same offset
                  PyInt(_to_nanos(parsed))
             ELSE Raise("ValueError")

\* A tags loop that visits the items unsorted.
tag_items_unsorted(tags) == tags

\* The items of the tags loop, in the order the loop visits them.
tag_items(tags) == sorted(tags)

\* One pass of the tags loop: what it appends to tags.
tag_pair(key, value) ==
    IF value = None THEN <<>>
    ELSE LET tag_ == Translate(key, escape_name)
             value_ == Translate(value.s, escape_name)
         IN  IF tag_ # <<>> /\ value_ # <<>>
             THEN <<",">> \o tag_ \o <<"=">> \o value_
             ELSE <<>>

\* A fields loop that tests for an integer before it tests for a boolean.
field_pair_int_first(key, value) ==
    IF value = None THEN <<>>
    ELSE LET field_ == Translate(key, escape_name)
         IN  IF isinstance(value, "str")
             THEN <<",">> \o field_ \o <<"=", "\"">>
                    \o Translate(value.s, escape_field_value) \o <<"\"">>
             ELSE IF isinstance(value, "float")
             THEN IF ~isfinite(value) THEN <<>>
                  ELSE <<",">> \o field_ \o <<"=">> \o str(value)
             ELSE IF isinstance(value, "int")
             THEN <<",">> \o field_ \o <<"=">> \o str(value) \o <<"i">>
             ELSE IF isinstance(value, "bool")
             THEN <<",">> \o field_ \o <<"=">> \o lower(str(value))
             ELSE <<>>

\* One pass of the fields loop: what it appends to fields.
field_pair(key, value) ==
    IF value = None THEN <<>>
    ELSE LET field_ == Translate(key, escape_name)
         IN  IF isinstance(value, "str")
             THEN <<",">> \o field_ \o <<"=", "\"">>
                    \o Translate(value.s, escape_field_value) \o <<"\"">>
             ELSE IF isinstance(value, "bool")
             THEN <<",">> \o field_ \o <<"=">> \o lower(str(value))
             ELSE IF isinstance(value, "float")
             THEN IF ~isfinite(value) THEN <<>>
                  ELSE <<",">> \o field_ \o <<"=">> \o str(value)
             ELSE IF isinstance(value, "int")
             THEN <<",">> \o field_ \o <<"=">> \o str(value) \o <<"i">>
             ELSE <<>>

\* The items of the fields loop, in the order the loop visits them.
field_items(fields) == fields

\* What Point.to_line_protocol returns for a point in the given state.
line_protocol(measurement, tags_, fields_, t) ==
    LET m == Translate(measurement, escape_measurement)
        ti == tag_items(tags_)
        tags == Concat([i \in 1..Len(ti) |-> tag_pair(ti[i].k, ti[i].v)])
        fi == field_items(fields_)
        fields == Concat([i \in 1..Len(fi) |-> field_pair(fi[i].k, fi[i].v)])
        tm == _convert_timestamp(t)
    IN  IF fields = <<>> THEN Text(<<>>)
        ELSE IF tm = Raise("ValueError") THEN tm
        ELSE LET time_format ==
                    IF tm = Text(<<>>) THEN <<>> ELSE <<" ">> \o str(tm)
             IN  Text(m \o tags \o <<" ">> \o Tail(fields) \o time_format)

\* A to_line_protocol that keeps the converted timestamp in the Point.
to_line_protocol_keeps_time ==
    LET tm == _convert_timestamp(_time)
    IN  /\ ret' = line_protocol(_measurement, _tags, _fields, _time)
        /\ _time' = IF tm # Text(<<>>) /\ tm # Raise("ValueError") THEN tm ELSE _time
        /\ UNCHANGED <<_measurement, _tags, _fields, _write_precision,
                       last_null, field_order, cstate>>

\* Point.to_line_protocol
to_line_protocol ==
    /\ ret' = line_protocol(_measurement, _tags, _fields, _time)
    /\ UNCHANGED <<pvars, last_null, field_order, cstate>>

\* The keys and the values of a list of <<key, value>> arguments.
KeysOf(args) == PyList([i \in 1..Len(args) |-> PyStr(args[i][1])])
ValuesOf(args) == PyList([i \in 1..Len(args) |-> args[i][2]])

\* --------------------------------------------------------------- client.py

\* s.encode("utf-8"), for the ASCII characters of the model: one byte each.
encode(s) == [i \in 1..Len(s) |-> Ord(s[i])]

\* gzip.compress(data): the compressed form of data, which is not data.
gzip_compress(data) == [t |-> "gzip", of |-> data]

\* d.get(k, default)
DictGet(d, k, default) ==
    IF DictHas(d, k) THEN d[CHOOSE i \in 1..Len(d) : d[i].k = k].v ELSE default

RECURSIVE DictUpdate(_, _)
\* d.update(other)
DictUpdate(d, other) ==
    IF other = <<>> THEN d
    ELSE DictUpdate(DictSet(d, Head(other).k, Head(other).v), Tail(other))

RECURSIVE json_items(_)
\* The body of a JSON object of natural numbers: "k": n, "k": n
json_items(d) ==
    IF d = <<>> THEN <<>>
    ELSE <<"\"">> \o Head(d).k \o <<"\"", ":", " ">> \o NatToStr(Head(d).v.n)
            \o (IF Len(d) > 1 THEN <<",", " ">> \o json_items(Tail(d)) ELSE <<>>)

\* json.dumps(d) for a dict from str to int.
json_dumps(d) == <<"{">> \o json_items(d) \o <<"}">>

\* The value of a decimal digit character.
DigitValue(c) == CHOOSE n \in 0..9 : Digit(n) = c

RECURSIVE json_parse(_, _, _, _)
\* json.loads read character by character: mode "out" between items, "key"
\* inside a key, "val" inside a number.
json_parse(text, mode, key, d) ==
    IF text = <<>> THEN d
    ELSE LET c == Head(text)
             rest == Tail(text)
         IN  CASE mode = "out" /\ c = "\"" -> json_parse(rest, "key", <<>>, d)
               [] mode = "out" /\ c \in {"0", "1", "2", "3", "4", "5", "6", "7", "8", "9"} ->
                    json_parse(rest, "val", key, DictSet(d, key, PyInt(DigitValue(c))))
               [] mode = "out" /\ c = "," -> json_parse(rest, "out", <<>>, d)
               [] mode = "key" /\ c = "\"" -> json_parse(rest, "out", key, d)
               [] mode = "key" /\ c # "\"" -> json_parse(rest, "key", Append(key, c), d)
               [] mode = "val" /\ c \in {"0", "1", "2", "3", "4", "5", "6", "7", "8", "9"} ->
                    json_parse(rest, "val", key,
                        DictSet(d, key, PyInt(DictGet(d, key, PyInt(0)).n * 10 + DigitValue(c))))
               [] mode = "val" /\ c \in {",", "}"} -> json_parse(rest, "out", <<>>, d)
               [] OTHER -> json_parse(rest, mode, key, d)

\* json.loads(text) for the text of a dict from str to int.
json_loads(text) == json_parse(text, "out", <<>>, <<>>)

\* self._session was never assigned.
Missing == [t |-> "no attribute"]
\* The session __init__ creates, and one the caller supplies.
OwnSession == [t |-> "Session", by |-> "requests.Session()"]
ExternalSession == [t |-> "Session", by |-> "caller"]

\* self._baseurl
_baseurl == <<"http://", "localhost", ":", "8086">>

\* The arguments the model's callers pass to the client.
Databases == {PyStr(<<"m">>), PyStr(<<"m", ",", "x">>)}
Users == {<<<<"a">>, <<"x">>>>, <<<<"b">>, <<"m">>>>}
WriteArgs == {<<<<"m", " ", "b", "=", "1", "i">>, "ms">>, <<<<>>, "ns">>}
\* query's arguments: the statement, chunked, chunk_size, epoch, bind_params
\* and method.
QueryArg(query_, chunked, chunk_size, epoch, bind_params, method) ==
    [query |-> query_, chunked |-> chunked, chunk_size |-> chunk_size,
     epoch |-> epoch, bind_params |-> bind_params, method |-> method]
QueryArgs ==
    {QueryArg(<<"SELECT 1">>, FALSE, 0, None, None, "GET"),
     QueryArg(<<"SELECT $a">>, TRUE, 10, PyStr(<<"ms">>),
              PyDict(<<[k |-> <<"a">>, v |-> PyInt(1)]>>), "POST"),
     QueryArg(<<"SELECT 1">>, TRUE, 0, None, None, "GET")}
\* The mappings the caller builds to pass as query's params.
BuiltParams ==
    {<<>>,
     <<[k |-> "db", v |-> PyStr(<<"x">>)],
       [k |-> "params", v |-> PyStr(json_dumps(<<[k |-> <<"a">>, v |-> PyInt(0)],
                                                 [k |-> <<"b">>, v |-> PyInt(12)]>>))]>>}

\* The responses of the server.
Response(status_code, content, version) ==
    [status_code |-> status_code, content |-> content, version |-> version]
Responses ==
    {Response(200, <<"{", "\"", "a", "\"", ":", " ", "1", "}">>, None), Response(204, <<>>, PyStr(<<"v", "1">>)),
     Response(204, <<>>, None), Response(404, <<"n", "o">>, None)}

Bytes(b) == [t |-> "bytes", b |-> b]
Return(value) == [kind |-> "return", value |-> value]
\* Exception(f"{response.status_code}: {response.content}")
StatusError(response) ==
    [kind |-> "raise", exc |-> "Exception",
     status_code |-> response.status_code, content |-> response.content]
NoCall == [op |-> "__init__"]

\* OpenGeminiClient.__init__
InitClient ==
    /\ \E u \in Users : _username = u[1] /\ _password = u[2]
    /\ _database \in {PyStr(<<"m">>), None}
    /\ _gzip \in BOOLEAN
    /\ session_arg \in {None, ExternalSession}
    /\ _session = IF session_arg = None THEN OwnSession ELSE Missing
    /\ _headers = <<[k |-> "Content-type", v |-> "application/json"],
                    [k |-> "Accept", v |-> "text/plain"]>>
    /\ _write_headers = <<[k |-> "Content-type", v |-> "application/octet-stream"],
                          [k |-> "Accept", v |-> "text/plain"]>>
    /\ caller_params = <<>>
    /\ built_params = <<>>
    /\ call = NoCall
    /\ sent = <<>>
    /\ received = <<>>
    /\ cret = Return(None)

\* OpenGeminiClient.request, for the response the server gives: the request
\* made (if any), the result, and the header dict it updated. header is
\* "_headers" (the default) or "_write_headers".
request(url, method, data, params, expected_response_code, header, response) ==
    LET header0 == IF header = "_headers" THEN _headers ELSE _write_headers
        header1 == IF _gzip
                   THEN DictUpdate(header0, <<[k |-> "Accept-Encoding", v |-> "gzip"],
                                              [k |-> "Content-Encoding", v |-> "gzip"]>>)
                   ELSE header0
        data1 == IF _gzip /\ data # None THEN gzip_compress(data) ELSE data
        req == [session |-> _session, method |-> method,
                url |-> _baseurl \o <<"/">> \o <<url>>,
                auth |-> <<_username, _password>>,
                data |-> data1, headers |-> header1, params |-> params]
    IN  [header |-> header1,
         sent |-> IF _session = Missing THEN <<>> ELSE <<req>>,
         received |-> IF _session = Missing THEN <<>> ELSE <<response>>,
         result |-> IF _session = Missing THEN Raise("AttributeError")
                    ELSE IF response.status_code = expected_response_code
                    THEN Return(response)
                    ELSE StatusError(response)]

\* The params query sends, from the mapping it was given.
query_params(query_, params, chunked, chunk_size, epoch, bind_params) ==
    LET p1 == IF epoch # None THEN DictSet(params, "epoch", epoch) ELSE params
        p2 == IF chunked
              THEN LET c == DictSet(p1, "chunked", PyStr(<<"true">>))
                   IN  IF chunk_size > 0
                       THEN DictSet(c, "chunk_size", PyInt(chunk_size)) ELSE c
              ELSE p1
        p3 == IF bind_params # None
              THEN LET params_dict ==
                        json_loads(DictGet(p2, "params", PyStr(<<"{", "}">>)).s)
                   IN  DictSet(p2, "params",
                            PyStr(json_dumps(DictUpdate(params_dict, bind_params.items))))
              ELSE p2
        p4 == DictSet(p3, "q", PyStr(query_))
    IN  IF DictGet(p4, "db", None) = None THEN DictSet(p4, "db", _database) ELSE p4

\* OpenGeminiClient.query: a is the QueryArg, params is "None" or "caller" (the
\* caller's mapping, which query then writes to).
query(a, params, response) ==
    LET p == query_params(a.query, IF params = "None" THEN <<>> ELSE caller_params,
                          a.chunked, a.chunk_size, a.epoch, a.bind_params)
        r == request("query", a.method, None, p, 200, "_headers", response)
    IN  /\ caller_params' = IF params = "None" THEN caller_params ELSE p
        /\ _headers' = r.header
        /\ sent' = r.sent
        /\ received' = r.received
        /\ cret' = IF r.result.kind = "return"
                   THEN Return(PyDict(json_loads(response.content)))
                   ELSE r.result
        /\ UNCHANGED <<_username, _password, _database, _gzip, _session,
                       _write_headers, built_params, session_arg, pstate>>

\* A query call of the caller.
Query(a, params, response) ==
    /\ call' = [op |-> "query", query |-> a.query, params |-> params, arg |-> a]
    /\ query(a, params, response)

\* OpenGeminiClient.write
write(point, precision, response) ==
    LET params == <<[k |-> "db", v |-> _database],
                    [k |-> "precision", v |-> PyStr(<<precision>>)]>>
        data == Bytes(encode(point \o <<"\n">>))
        r == request("write", "POST", data, params, 204, "_write_headers", response)
    IN  /\ _write_headers' = r.header
        /\ sent' = r.sent
        /\ received' = r.received
        /\ cret' = IF r.result.kind = "return" THEN Return(None) ELSE r.result
        /\ call' = [op |-> "write", point |-> point, precision |-> precision]
        /\ UNCHANGED <<_username, _password, _database, _gzip, _session, _headers,
                       caller_params, built_params, session_arg, pstate>>

\* OpenGeminiClient.switch_database
switch_database(database) ==
    /\ _database' = database
    /\ call' = [op |-> "switch_database", database |-> database]
    /\ sent' = <<>>
    /\ received' = <<>>
    /\ cret' = Return(None)
    /\ UNCHANGED <<_username, _password, _gzip, _session, _headers, _write_headers,
                   caller_params, built_params, session_arg, pstate>>

\* OpenGeminiClient.switch_user
switch_user(username, password) ==
    /\ _username' = username
    /\ _password' = password
    /\ call' = [op |-> "switch_user", username |-> username, password |-> password]
    /\ sent' = <<>>
    /\ received' = <<>>
    /\ cret' = Return(None)
    /\ UNCHANGED <<_database, _gzip, _session, _headers, _write_headers,
                   caller_params, built_params, session_arg, pstate>>

\* OpenGeminiClient.ping
ping(response) ==
    LET r == request("ping", "GET", None, <<>>, 204, "_headers", response)
    IN  /\ _headers' = r.header
        /\ sent' = r.sent
        /\ received' = r.received
        /\ cret' = IF r.result.kind # "return" THEN r.result
                   ELSE IF response.version = None THEN Raise("KeyError")
                   ELSE Return(response.version)
        /\ call' = [op |-> "ping"]
        /\ UNCHANGED <<_username, _password, _database, _gzip, _session,
                       _write_headers, caller_params, built_params, session_arg, pstate>>

\* The caller builds a mapping to pass as params.
BuildParams(params) ==
    /\ caller_params' = params
    /\ built_params' = params
    /\ call' = [op |-> "dict"]
    /\ sent' = <<>>
    /\ received' = <<>>
    /\ cret' = Return(None)
    /\ UNCHANGED <<cvars, session_arg, pstate>>

\* An f-string's {value}: the text of a str, an int, a bool or None.
format(value) ==
    CASE value = None -> <<"None">>
      [] value.t = "str" -> value.s
      [] value.t = "int" -> IntToStr(value.n)
      [] value.t = "bool" -> IF value.b THEN <<"True">> ELSE <<"False">>

\* if value: the truth value Python gives a str, an int, a bool or None.
truthy(value) ==
    CASE value = None -> FALSE
      [] value.t = "str" -> value.s # <<>>
      [] value.t = "int" -> value.n # 0
      [] value.t = "bool" -> value.b

\* A statement is a text in which each keyword phrase is one element and every
\* other character (a quote, a space, the characters of a name) is its own.

\* A DDL helper's query call: self.query(statement, method=method).
ddl_query(statement, method, response) ==
    query(QueryArg(statement, FALSE, 0, None, None, method), "None", response)

\* A DDL helper that fails on None.translate before it calls query.
ddl_attribute_error ==
    /\ sent' = <<>>
    /\ received' = <<>>
    /\ cret' = Raise("AttributeError")
    /\ UNCHANGED <<cvars, session_arg, caller_params, built_params, pstate>>

\* OpenGeminiClient.create_database
create_database(dbname, response) ==
    /\ call' = [op |-> "create_database", dbname |-> dbname]
    /\ ddl_query(<<"CREATE DATABASE", " ">> \o dbname, "POST", response)

\* OpenGeminiClient.drop_database
drop_database(dbname, response) ==
    /\ call' = [op |-> "drop_database", dbname |-> dbname]
    /\ ddl_query(<<"DROP DATABASE", " ">> \o dbname, "POST", response)

\* OpenGeminiClient.show_database
show_database(response) ==
    /\ call' = [op |-> "show_database"]
    /\ ddl_query(<<"SHOW DATABASES">>, "GET", response)

\* The statement create_retention_policy builds, for a database that is a str.
create_retention_policy_query(retention_policy_name, replication, duration, database, default, shard_duration) ==
    LET query0 == <<"CREATE RETENTION POLICY", " ", "\"">>
                    \o Translate(retention_policy_name, escape_name) \o <<"\"", " ">>
                    \o <<"ON", " ", "\"">> \o Translate(database.s, escape_name)
                    \o <<"\"", " ">>
                    \o <<"DURATION", " ">> \o format(duration) \o <<" ">>
                    \o <<"REPLICATION", " ">> \o format(replication)
        query1 == IF truthy(shard_duration)
                  THEN query0 \o <<" ", "SHARD DURATION", " ", "{shard_duration}">>
                  ELSE query0
    IN  IF truthy(default) THEN query1 \o <<" ", "DEFAULT">> ELSE query1

\* OpenGeminiClient.create_retention_policy
create_retention_policy(retention_policy_name, replication, duration, database, default, shard_duration, response) ==
    LET db == IF database = None THEN _database ELSE database
    IN  /\ call' = [op |-> "create_retention_policy", name |-> retention_policy_name,
                    replication |-> replication, duration |-> duration,
                    database |-> database, default |-> default,
                    shard_duration |-> shard_duration]
        /\ IF db = None THEN ddl_attribute_error
           ELSE ddl_query(
                    create_retention_policy_query(retention_policy_name, replication,
                                                  duration, db, default, shard_duration),
                    "POST", response)

\* The statement alter_retention_policy builds, for a database that is a str.
alter_retention_policy_query(retention_policy_name, database, duration, replication, default, shard_duration) ==
    LET query0 == <<"ALTER RETENTION POLICY", " ", "\"">>
                    \o Translate(retention_policy_name, escape_name) \o <<"\"", " ">>
                    \o <<"ON", " ", "\"">> \o Translate(database.s, escape_name)
                    \o <<"\"">>
        query1 == IF truthy(duration)
                  THEN query0 \o <<" ", "DURATION", " ">> \o format(duration)
                  ELSE query0
        query2 == IF truthy(shard_duration)
                  THEN query1 \o <<" ", "SHARD DURATION", " ">> \o format(shard_duration)
                  ELSE query1
        query3 == IF truthy(replication)
                  THEN query2 \o <<" ", "REPLICATION", " ">> \o format(replication)
                  ELSE query2
    IN  IF default = PyBool(TRUE) THEN query3 \o <<" ", "DEFAULT">> ELSE query3

\* OpenGeminiClient.alter_retention_policy
alter_retention_policy(retention_policy_name, database, duration, replication, default, shard_duration, response) ==
    LET db == IF database = None THEN _database ELSE database
    IN  /\ call' = [op |-> "alter_retention_policy", name |-> retention_policy_name,
                    replication |-> replication, duration |-> duration,
                    database |-> database, default |-> default,
                    shard_duration |-> shard_duration]
        /\ IF db = None THEN ddl_attribute_error
           ELSE ddl_query(
                    alter_retention_policy_query(retention_policy_name, db, duration,
                                                 replication, default, shard_duration),
                    "POST", response)

\* OpenGeminiClient.drop_retention_policy
drop_retention_policy(retention_policy_name, database, response) ==
    LET db == IF database = None THEN _database ELSE database
    IN  /\ call' = [op |-> "drop_retention_policy", name |-> retention_policy_name,
                    database |-> database]
        /\ IF db = None THEN ddl_attribute_error
           ELSE ddl_query(
                    <<"DROP RETENTION POLICY", " ", "\"">>
                        \o Translate(retention_policy_name, escape_name)
                        \o <<"\"", " ">>
                        \o <<"ON", " ", "\"">> \o Translate(db.s, escape_name)
                        \o <<"\"">>,
                    "POST", response)

\* OpenGeminiClient.show_retention_policy
show_retention_policy(database, response) ==
    LET db == IF database = None THEN _database ELSE database
    IN  /\ call' = [op |-> "show_retention_policy", database |-> database]
        /\ IF db = None THEN ddl_attribute_error
           ELSE ddl_query(
                    <<"SHOW RETENTION POLICIES ON", " ", "\"">>
                        \o Translate(db.s, escape_name) \o <<"\"">>,
                    "GET", response)

\* OpenGeminiClient.create_user
create_user(username, password, admin, response) ==
    LET query0 == <<"CREATE USER", " ">> \o username \o <<" ", "WITH PASSWORD", " ">>
                    \o password
    IN  /\ call' = [op |-> "create_user", username |-> username,
                    password |-> password, admin |-> admin]
        /\ ddl_query(IF admin THEN query0 \o <<" ", "WITH ALL PRIVILEGES">> ELSE query0,
                     "POST", response)

\* OpenGeminiClient.drop_user
drop_user(username, response) ==
    /\ call' = [op |-> "drop_user", username |-> username]
    /\ ddl_query(<<"DROP USER", " ">> \o username, "POST", response)

\* The arguments the model's callers pass to the DDL helpers.
Names == {<<"a", " ", "=">>, <<"x", ",">>}
Passwords == {<<"x">>}
Durations == {PyStr(<<"1", "x">>)}
Replications == {PyInt(1)}
ShardDurations == {PyStr(<<"1", "m">>)}
DDLResponses == {r \in Responses : r.status_code # 204}

\* A client beside a Point that is never called.
InitSession ==
    /\ InitClient
    /\ InitPoint
    /\ _measurement = <<"m">>

\* A Point beside a client that is never called: OpenGeminiClient().
InitEncoder ==
    /\ InitPoint
    /\ InitClient
    /\ _username = <<"a">>
    /\ _database = None
    /\ _gzip = FALSE
    /\ _session = OwnSession

NextSession ==
    \/ \E database \in Databases : switch_database(database)
    \/ \E u \in Users : switch_user(u[1], u[2])
    \/ \E a \in WriteArgs, response \in Responses : write(a[1], a[2], response)
    \/ \E a \in QueryArgs, params \in {"None", "caller"}, response \in Responses :
            Query(a, params, response)
    \/ \E response \in Responses : ping(response)
    \/ \E params \in BuiltParams : BuildParams(params)

\* The session operations of a client: switch_database, switch_user, write,
\* query and ping.
Spec == InitSession /\ [][NextSession]_vars

NextDDL ==
    \/ \E database \in Databases : switch_database(database)
    \/ \E n \in Names, response \in DDLResponses : create_database(n, response)
    \/ \E n \in Names, response \in DDLResponses : drop_database(n, response)
    \/ \E response \in DDLResponses : show_database(response)
    \/ \E n \in Names, database \in {None, PyStr(<<"x", ",">>)}, default \in BOOLEAN,
          shard_duration \in ShardDurations \cup {None}, response \in DDLResponses :
            create_retention_policy(n, PyInt(1), PyStr(<<"1", "x">>), database,
                                    PyBool(default), shard_duration, response)
    \/ \E database \in {None, PyStr(<<"x", ",">>)}, duration \in Durations \cup {None},
          replication \in Replications \cup {None},
          default \in {None, PyBool(TRUE), PyBool(FALSE)},
          shard_duration \in ShardDurations \cup {None}, response \in DDLResponses :
            alter_retention_policy(<<"a", " ", "=">>, database, duration, replication,
                                   default, shard_duration, response)
    \/ \E n \in Names, database \in {None, PyStr(<<"x", ",">>)},
          response \in DDLResponses :
            drop_retention_policy(n, database, response)
    \/ \E database \in {None, PyStr(<<"x", ",">>)}, response \in DDLResponses :
            show_retention_policy(database, response)
    \/ \E n \in Names, password \in Passwords, admin \in BOOLEAN,
          response \in DDLResponses :
            create_user(n, password, admin, response)
    \/ \E n \in Names, response \in DDLResponses : drop_user(n, response)

\* The DDL helpers of a client, and switch_database.
SpecDDL == InitSession /\ [][NextDDL]_vars

\* ------------------------------------ properties of the session operations

\* The UTF-8 bytes of a line followed by one newline (byte 10).
LineBytes(line) ==
    [i \in 1..(Len(line) + 1) |-> IF i <= Len(line) THEN Ord(line[i]) ELSE 10]

\* The status each operation expects.
ExpectedStatus(op) == IF op = "query" THEN 200 ELSE 204

\* The operations that reach request.
Requesting == {"query", "write", "ping"}

\* C1: write(L, p) issues exactly one POST to <base_url>/write with db = the
\* client's database and precision = p, whose body is the UTF-8 bytes of L and
\* one newline, gzip-compressed under a Content-Encoding: gzip header when gzip
\* is enabled, and which expects status 204.
C1_WriteRequest ==
    call.op = "write" =>
        /\ Len(sent) = 1
        /\ sent[1].method = "POST"
        /\ sent[1].url = _baseurl \o <<"/", "write">>
        /\ sent[1].params = <<[k |-> "db", v |-> _database],
                              [k |-> "precision", v |-> PyStr(<<call.precision>>)]>>
        /\ IF _gzip
           THEN /\ sent[1].data = gzip_compress(Bytes(LineBytes(call.point)))
                /\ DictGet(sent[1].headers, "Content-Encoding", "") = "gzip"
           ELSE /\ sent[1].data = Bytes(LineBytes(call.point))
                /\ ~DictHas(sent[1].headers, "Content-Encoding")
        /\ cret = IF received[1].status_code = 204 THEN Return(None)
                  ELSE StatusError(received[1])

\* C1 for a client that has its session attribute.
C1_WriteRequestWithSession == _session # Missing => C1_WriteRequest

\* C2: switch_database and switch_user issue no HTTP request; each write and
\* each query called without a db of the caller's carries the database set
\* last, and every request authenticates with the user and password set last.
C2_SwitchesTakeEffect ==
    /\ call.op \in {"switch_database", "switch_user"} => sent = <<>>
    /\ (call.op = "switch_database" => _database = call.database)
    /\ (call.op = "switch_user" =>
            _username = call.username /\ _password = call.password)
    /\ call.op = "write" \/
       (call.op = "query" /\ (call.params = "None" \/ ~DictHas(built_params, "db"))) =>
            \A i \in 1..Len(sent) : DictGet(sent[i].params, "db", "absent") = _database
    /\ \A i \in 1..Len(sent) : sent[i].auth = <<_username, _password>>

\* C2 for queries whose params mapping holds no db when query is called: the
\* mapping is new, or no earlier query wrote to it.
C2_SwitchesTakeEffectFreshParams ==
    /\ call.op \in {"switch_database", "switch_user"} => sent = <<>>
    /\ (call.op = "switch_database" => _database = call.database)
    /\ (call.op = "switch_user" =>
            _username = call.username /\ _password = call.password)
    /\ call.op = "write" \/ (call.op = "query" /\ call.params = "None") =>
            \A i \in 1..Len(sent) : DictGet(sent[i].params, "db", "absent") = _database
    /\ \A i \in 1..Len(sent) : sent[i].auth = <<_username, _password>>

\* C3: an operation that reaches request makes exactly one HTTP call; it
\* returns if the status is the expected one and otherwise raises an error
\* that carries the status code and the raw body; the client's database,
\* username and password stay as they were.
C3_OneCallNoRetry ==
    /\ [](call.op \in Requesting =>
            /\ Len(sent) = 1
            /\ Len(received) = 1
            /\ IF received[1].status_code = ExpectedStatus(call.op)
               THEN cret.kind = "return" \/ (call.op = "ping" /\ cret = Raise("KeyError"))
               ELSE cret = StatusError(received[1]))
    /\ [][call'.op \in Requesting /\ (call' # call \/ sent' # sent \/ cret' # cret) =>
            UNCHANGED <<_database, _username, _password>>]_vars

\* C3 for a client that has its session attribute.
C3_OneCallNoRetryWithSession ==
    /\ [](call.op \in Requesting /\ _session # Missing =>
            /\ Len(sent) = 1
            /\ Len(received) = 1
            /\ IF received[1].status_code = ExpectedStatus(call.op)
               THEN cret.kind = "return" \/ (call.op = "ping" /\ cret = Raise("KeyError"))
               ELSE cret = StatusError(received[1]))
    /\ [][call'.op \in Requesting /\ (call' # call \/ sent' # sent \/ cret' # cret) =>
            UNCHANGED <<_database, _username, _password>>]_vars

\* The parameters of a request that query reads or writes.
QueryKeys == {"q", "db", "epoch", "chunked", "chunk_size", "params"}

\* The value a mapping holds under a key, or that it holds none.
ValueAt(d, k) == DictGet(d, k, [t |-> "absent"])

\* The params a query call with these arguments sends when it is given this
\* mapping, with the client's database as it is now.
FreshParams(a, mapping) ==
    query_params(a.query, mapping, a.chunked, a.chunk_size, a.epoch, a.bind_params)

\* C11: a query call that is passed the caller's params mapping sends q, db,
\* epoch, chunked, chunk_size and params values that follow from this call's
\* arguments, the mapping as the caller built it and the client's current
\* database alone, whatever earlier query calls were passed the same mapping.
C11_QueryCarriesNoState ==
    call.op = "query" /\ call.params = "caller" /\ sent # <<>> =>
        \A k \in QueryKeys :
            ValueAt(sent[1].params, k) = ValueAt(FreshParams(call.arg, built_params), k)

\* C11 for the first query call that is passed a mapping: the mapping still
\* is as the caller built it.
C11_FirstUseOfMapping ==
    [][call'.op = "query" /\ call'.params = "caller" /\ sent' # <<>>
            /\ caller_params = built_params =>
        \A k \in QueryKeys :
            ValueAt(sent'[1].params, k) = ValueAt(FreshParams(call'.arg, built_params), k)]_vars

\* query leaves in the caller's mapping every parameter it computed.
C11_MappingHoldsWhatWasSent ==
    call.op = "query" /\ call.params = "caller" /\ sent # <<>> =>
        caller_params = sent[1].params

\* C10: every request of a client goes through the session it was given, or
\* through the one it created when it was given none, and a request reaches
\* the HTTP call rather than failing locally.
C10_SessionUsed ==
    call.op \in Requesting =>
        /\ Len(sent) = 1
        /\ sent[1].session = IF session_arg = None THEN OwnSession ELSE session_arg
        /\ cret # Raise("AttributeError")

NextPoint ==
    \/ \E a \in TimeArgs : time(a[1], a[2])
    \/ \E a \in TagArgs : tag(PyStr(a[1]), a[2])
    \/ \E args \in TagListArgs : tag(KeysOf(args), ValuesOf(args))
    \/ \E args \in TagListArgs \ {<<>>} :
            \/ tag(KeysOf(Tail(args)), ValuesOf(args))
            \/ tag(KeysOf(args), ValuesOf(Tail(args)))
    \/ \E a \in FieldArgs : field(PyStr(a[1]), a[2])
    \/ \E args \in FieldListArgs : field(KeysOf(args), ValuesOf(args))
    \/ \E args \in FieldListArgs \ {<<>>} :
            \/ field(KeysOf(Tail(args)), ValuesOf(args))
            \/ field(KeysOf(args), ValuesOf(Tail(args)))
    \/ to_line_protocol

SpecPoint == InitEncoder /\ [][NextPoint]_vars

\* ------------------------------------------------- properties of point.py

\* text[i..] starts with sub.
StartsAt(text, i, sub) ==
    /\ i + Len(sub) - 1 <= Len(text)
    /\ \A j \in 1..Len(sub) : text[i + j - 1] = sub[j]

\* The places of text where the pair of key starts: a separator (the comma or
\* the space before a pair), the escaped key and "=".
PairPlaces(text, key) ==
    {i \in 1..Len(text) :
        /\ text[i] \in {",", " "}
        /\ StartsAt(text, i + 1, Translate(key, escape_name) \o <<"=">>)}

\* The pair of key, with exactly this value text, is in text.
PairIn(text, key, valueText) ==
    \E i \in PairPlaces(text, key) :
        LET from == i + 1 + Len(Translate(key, escape_name)) + 1
            after == from + Len(valueText)
        IN  /\ StartsAt(text, from, valueText)
            /\ after <= Len(text) => text[after] \in {",", " "}

\* A field value that the encoder keeps: not null, not a non-finite float.
Retained(value) ==
    /\ value # None
    /\ value.t = "float" => value.kind = "finite"

\* to_line_protocol has just returned a text.
Rendered == ret.kind = "text"

\* C4: a tag or field whose key was most recently set to null, and a field
\* whose key was most recently set to a non-finite float, is not in the output
\* of to_line_protocol; and a point none of whose fields is retained renders to
\* the empty string.
C4_NullAndNonFiniteDropped ==
    Rendered =>
        /\ last_null # NoKey => PairPlaces(ret.text, last_null.key) = {}
        /\ \A i \in 1..Len(_fields) :
                ~Retained(_fields[i].v) => PairPlaces(ret.text, _fields[i].k) = {}
        /\ (\A i \in 1..Len(_fields) : ~Retained(_fields[i].v)) => ret.text = <<>>

\* The text a field value of each type is rendered as, by the value's own type.
ExpectedValueText(value) ==
    CASE value.t = "str" ->
            <<"\"">> \o Translate(value.s, escape_field_value) \o <<"\"">>
      [] value.t = "bool" ->
            IF value.b THEN <<"t", "r", "u", "e">> ELSE <<"f", "a", "l", "s", "e">>
      [] value.t = "float" -> str(value)
      [] value.t = "int" -> IntToStr(value.n) \o <<"i">>

RECURSIVE Unescape(_)
\* A quoted string value read back: a backslash gives the character after it.
Unescape(text) ==
    IF text = <<>> THEN <<>>
    ELSE IF Head(text) = "\\" /\ Len(text) >= 2
    THEN <<text[2]>> \o Unescape(Tail(Tail(text)))
    ELSE <<Head(text)>> \o Unescape(Tail(text))

\* No double quote of text stands unescaped.
RECURSIVE NoBareQuote(_)
NoBareQuote(text) ==
    IF text = <<>> THEN TRUE
    ELSE IF Head(text) = "\\" /\ Len(text) >= 2 THEN NoBareQuote(Tail(Tail(text)))
    ELSE Head(text) # "\"" /\ NoBareQuote(Tail(text))

\* C5: every retained field is rendered by its type, resolved in the order
\* string, boolean, float, integer: a string quoted with its quotes and
\* backslashes escaped, a boolean as true or false, a finite float as its
\* decimal text, an integer as its decimal text and i.
C5_FieldRenderedByType ==
    Rendered =>
        \A i \in 1..Len(_fields) :
            LET value == _fields[i].v
            IN  Retained(value) =>
                    /\ PairIn(ret.text, _fields[i].k, ExpectedValueText(value))
                    /\ value.t = "str" =>
                        LET inner == Translate(value.s, escape_field_value)
                        IN  Unescape(inner) = value.s /\ NoBareQuote(inner)
                    /\ value.t = "bool" =>
                        \A n \in {0, 1} :
                            ~PairIn(ret.text, _fields[i].k, IntToStr(n) \o <<"i">>)

\* A rendered text holding a boolean field and an integer field.
C5_Witness ==
    /\ Rendered
    /\ \E i, j \in 1..Len(_fields) :
            _fields[i].v = PyBool(TRUE) /\ _fields[j].v = PyInt(-MaxInt)
    /\ PairIn(ret.text, <<"b">>, <<"t", "r", "u", "e">>)

\* A tag that the encoder emits: a string value, key and value not empty.
TagEmitted(item) == item.v # None /\ item.k # <<>> /\ item.v.s # <<>>

\* The place of the pair of key in text.
PairPlace(text, key) == CHOOSE i \in PairPlaces(text, key) : TRUE

\* C6: the tag pairs of the output are in ascending lexicographic order of
\* their keys, and the field pairs in the order their keys were first inserted.
C6_TagsSortedFieldsInsertionOrder ==
    (Rendered /\ ret.text # <<>>) =>
        /\ \A i, j \in 1..Len(_tags) :
                (TagEmitted(_tags[i]) /\ TagEmitted(_tags[j])
                    /\ StrLess(_tags[i].k, _tags[j].k)) =>
                    /\ PairPlaces(ret.text, _tags[i].k) # {}
                    /\ PairPlaces(ret.text, _tags[j].k) # {}
                    /\ PairPlace(ret.text, _tags[i].k) < PairPlace(ret.text, _tags[j].k)
        /\ \A i, j \in 1..Len(field_order) :
                LET present(k) == \E n \in 1..Len(_fields) :
                                    _fields[n].k = k /\ Retained(_fields[n].v)
                IN  (i < j /\ present(field_order[i]) /\ present(field_order[j])) =>
                        /\ PairPlaces(ret.text, field_order[i]) # {}
                        /\ PairPlaces(ret.text, field_order[j]) # {}
                        /\ PairPlace(ret.text, field_order[i])
                                < PairPlace(ret.text, field_order[j])

\* A rendered text with two tags inserted in descending key order and two
\* fields inserted in descending key order.
C6_Witness ==
    /\ Rendered
    /\ Len(_tags) >= 2 /\ TagEmitted(_tags[1]) /\ TagEmitted(_tags[2])
    /\ StrLess(_tags[2].k, _tags[1].k)
    /\ Len(_fields) = 2 /\ Retained(_fields[1].v) /\ Retained(_fields[2].v)
    /\ StrLess(_fields[2].k, _fields[1].k)
    /\ ret.text # <<>>

\* C7: to_line_protocol leaves the Point unchanged, so two calls in a row
\* return the same; tag, field and time return the Point they were called on;
\* and a to_line_protocol after further calls gives the text of the state
\* those calls left.
C7_RenderHasNoEffect ==
    /\ [][ret'.kind = "text" \/ ret' = Raise("ValueError") => pvars' = pvars]_vars
    /\ [][(ret.kind = "text" /\ ret'.kind = "text") => ret' = ret]_vars
    /\ [][ret'.kind = "point" => ret' = Self]_vars
    /\ [](ret.kind = "text" \/ ret = Raise("ValueError")
            => ret = line_protocol(_measurement, _tags, _fields, _time))

\* A text rendered from a point with a tag, a field and a time.
C7_Witness ==
    /\ Rendered
    /\ ret.text # <<>>
    /\ _tags # <<>>
    /\ _time # None

\* ------------------------------------ properties of the DDL helpers

\* The statement of the request the last call sent.
Statement == DictGet(sent[1].params, "q", None).s

\* The database a retention-policy helper names: its argument, or the
\* client's database when the argument is None.
NamedDatabase == IF call.database = None THEN _database ELSE call.database

\* VERB "<name>" ON "<database>"
PolicyHead(verb) ==
    <<verb, " ", "\"">> \o Translate(call.name, escape_name) \o <<"\"", " ">>
        \o <<"ON", " ", "\"">> \o Translate(NamedDatabase.s, escape_name) \o <<"\"">>

\* A clause: a space, the keyword, a space and the value's text.
Clause(keyword, value) == <<" ", keyword, " ">> \o format(value)

\* C8: create_retention_policy sends CREATE RETENTION POLICY "<name>" ON
\* "<database>" DURATION <duration> REPLICATION <replication>, then SHARD
\* DURATION <shard_duration> iff shard_duration was given, then DEFAULT iff
\* default was asked for; alter_retention_policy emits DURATION, SHARD
\* DURATION, REPLICATION and DEFAULT in this order, each with the value given
\* and none for an argument that was not given.
C8_RetentionPolicyStatement ==
    /\ call.op = "create_retention_policy" /\ sent # <<>> =>
        Statement =
            PolicyHead("CREATE RETENTION POLICY")
                \o Clause("DURATION", call.duration)
                \o Clause("REPLICATION", call.replication)
                \o (IF call.shard_duration # None
                    THEN Clause("SHARD DURATION", call.shard_duration) ELSE <<>>)
                \o (IF call.default = PyBool(TRUE) THEN <<" ", "DEFAULT">> ELSE <<>>)
    /\ call.op = "alter_retention_policy" /\ sent # <<>> =>
        \E d, s, r, f \in BOOLEAN :
            /\ d => call.duration # None
            /\ s => call.shard_duration # None
            /\ r => call.replication # None
            /\ f => call.default = PyBool(TRUE)
            /\ Statement =
                PolicyHead("ALTER RETENTION POLICY")
                    \o (IF d THEN Clause("DURATION", call.duration) ELSE <<>>)
                    \o (IF s THEN Clause("SHARD DURATION", call.shard_duration)
                        ELSE <<>>)
                    \o (IF r THEN Clause("REPLICATION", call.replication) ELSE <<>>)
                    \o (IF f THEN <<" ", "DEFAULT">> ELSE <<>>)

\* The alter_retention_policy half of C8 alone.
C8_AlterStatement ==
    call.op = "alter_retention_policy" /\ sent # <<>> =>
        Statement =
            PolicyHead("ALTER RETENTION POLICY")
                \o (IF call.duration # None
                    THEN Clause("DURATION", call.duration) ELSE <<>>)
                \o (IF call.shard_duration # None
                    THEN Clause("SHARD DURATION", call.shard_duration) ELSE <<>>)
                \o (IF call.replication # None
                    THEN Clause("REPLICATION", call.replication) ELSE <<>>)
                \o (IF call.default = PyBool(TRUE) THEN <<" ", "DEFAULT">> ELSE <<>>)

\* The create_retention_policy half of C8 for calls without a shard_duration.
C8_CreateStatementNoShard ==
    call.op = "create_retention_policy" /\ sent # <<>> /\ call.shard_duration = None =>
        Statement =
            PolicyHead("CREATE RETENTION POLICY")
                \o Clause("DURATION", call.duration)
                \o Clause("REPLICATION", call.replication)
                \o (IF call.default = PyBool(TRUE) THEN <<" ", "DEFAULT">> ELSE <<>>)

\* The identifier is in the statement between double quotes and translated by
\* escape_name.
QuotedIn(statement, identifier) ==
    \E i \in 1..Len(statement) :
        StartsAt(statement, i, <<"\"">> \o Translate(identifier, escape_name) \o <<"\"">>)

\* The identifier arguments of the last call.
Identifiers ==
    CASE call.op \in {"create_database", "drop_database"} -> {call.dbname}
      [] call.op \in {"create_retention_policy", "alter_retention_policy",
                      "drop_retention_policy"} -> {call.name, NamedDatabase.s}
      [] call.op = "show_retention_policy" -> {NamedDatabase.s}
      [] call.op \in {"create_user", "drop_user"} -> {call.username}
      [] OTHER -> {}

\* C9: every DDL helper puts each identifier argument (database name,
\* retention-policy name, user name) in its statement between double quotes
\* and translated by escape_name.
C9_IdentifiersQuotedAndEscaped ==
    sent # <<>> => \A identifier \in Identifiers : QuotedIn(Statement, identifier)

\* C9 for the four retention-policy helpers alone.
C9_PolicyIdentifiersQuotedAndEscaped ==
    sent # <<>> /\ call.op \in {"create_retention_policy", "alter_retention_policy",
                                "drop_retention_policy", "show_retention_policy"} =>
        \A identifier \in Identifiers : QuotedIn(Statement, identifier)

====
